---- MODULE Spec2Model ----
(***************************************************************************)
(* A model of lmj/tnn/trainer.py: the SGD trainer (its three compiled      *)
(* functions f_train, f_eval, f_rate and its epoch loop), the shared       *)
(* Trainer.evaluate, and the keyword filtering of the HF trainer.          *)
(*                                                                         *)
(* Numbers.  Theano computes in finite-precision floating point.  The     *)
(* model computes in finite-precision decimal fixed point: a number v is   *)
(* held as the integer v*Scale, sums and differences are exact, products   *)
(* and quotients are rounded to the nearest 1/Scale.                       *)
(*                                                                         *)
(* Datasets.  A client holds one train_set and one valid_set and passes   *)
(* them to every train call; evaluate is given any of TestSets.            *)
(*                                                                         *)
(* Optional values.  None is the empty tuple and a given value x is the    *)
(* one-element tuple <<x>>.  numpy's nan (the mean of no rows) is the      *)
(* empty cost vector.                                                      *)
(***************************************************************************)
EXTENDS Integers, Sequences, FiniteSets, TLC

\* ------------------------------------------------------------------ bounds
MaxEpochs == 2      \* epochs is drawn from 0..MaxEpochs
MaxLen == 2         \* train_set holds at most MaxLen minibatches
MaxTrains == 2      \* train is called at most MaxTrains times on one trainer

\* --------------------------------------------------------------- arithmetic
Scale == 100

Half == Scale \div 2

\* a * b of two fixed-point numbers, rounded to the nearest 1/Scale
FMul(a, b) == (a * b + Half) \div Scale

\* a / n for a positive integer n, rounded
FDivN(a, n) == (2 * a + n) \div (2 * n)

RECURSIVE FPow(_, _)
\* decay ** t, by repeated multiplication
FPow(b, e) == IF e = 0 THEN Scale ELSE FMul(FPow(b, e - 1), b)

None == << >>

Some(x) == << x >>

NaN == << >>

RECURSIVE SeqsUpTo(_, _)
SeqsUpTo(S, n) ==
    IF n = 0 THEN { << >> }
    ELSE LET shorter == SeqsUpTo(S, n - 1)
         IN  shorter \cup { Append(s, x) : s \in shorter, x \in S }

\* ------------------------------------------------------------ the network
\* A minibatch is the tuple of inputs of the loss; here one number.
Inputs == { 0, 3 * Scale }

RECURSIVE WSum(_, _)
\* sum over k <= n of k * p[k]
WSum(p, n) == IF n = 0 THEN 0 ELSE WSum(p, n - 1) + n * p[n]

\* network.J: the scalar loss (sum_k k*p[k] - x)^2 ; with one parameter (w - x)^2
J(p, x) == LET e == WSum(p, Len(p)) - x IN FMul(e, e)

\* TT.grad(J, param): the derivative of J in parameter k
grad(p, x, k) == 2 * k * (WSum(p, Len(p)) - x)

\* costs = [J] + network.monitors, for a network without monitors
costs(p, x) == << J(p, x) >>

\* ------------------------------------------------------- the SGD trainer
VARIABLES vf, epochs, decay, m, lr,           \* SGD.__init__ options
          params, heading, t,                 \* shared variables of the graph
          train_set, valid_set,               \* the client's datasets
          pc, u, i, acc, args,                \* SGD.train: position and locals
          log,                                \* lines given to logging.info
          ret,                                \* what the last client call returned
          last, hist, ntrains, trace, p0, t0, log0, test_set,   \* history
          hf                                  \* the HF trainer

sgdvars == << vf, epochs, decay, m, lr, params, heading, t, train_set, valid_set,
              pc, u, i, acc, args, log, ret,
              last, hist, ntrains, trace, p0, t0, log0, test_set >>

\* the client holds no returned value: train returns None
NoReturn == [evaluate |-> None, f_rate |-> None]

\* numpy.zeros_like(param.get_value())
zeros_like(p) == [k \in 1..Len(p) |-> 0]

\* lr * (decay ** t)
rate(tt) == FMul(lr, FPow(decay, tt))

\* f_rate = theano.function([], [lr * (decay ** t)])
f_rate(tt) == << rate(tt) >>

\* mutant: the gradient term enters the heading with the wrong sign
f_train_ascent(p, h, tt, x) ==
    [out |-> costs(p, x), params |-> [k \in 1..Len(p) |-> p[k] + h[k]],
     heading |-> [k \in 1..Len(p) |->
                     FMul(m, h[k]) + FMul(rate(tt), grad(p, x, k))],
     t |-> tt + 1]

\* mutant: the parameter update reads the heading this call computes
f_train_unlagged(p, h, tt, x) ==
    LET h1 == [k \in 1..Len(p) |->
                  FMul(m, h[k]) - FMul(rate(tt), grad(p, x, k))]
    IN  [out |-> costs(p, x), params |-> [k \in 1..Len(p) |-> p[k] + h1[k]],
         heading |-> h1, t |-> tt + 1]

\* mutant: the updates are applied one after the other, t first
f_train_sequential(p, h, tt, x) ==
    LET t1 == tt + 1
        q == [k \in 1..Len(p) |-> p[k] + h[k]]
    IN  [out |-> costs(q, x), params |-> q,
         heading |-> [k \in 1..Len(p) |->
                         FMul(m, h[k]) - FMul(rate(t1), grad(q, x, k))],
         t |-> t1]

\* f_train = theano.function(network.inputs, costs, updates=updates): the
\* outputs and every update expression are evaluated on the values held
\* before the call, then all updates are assigned together.
f_train(p, h, tt, x) ==
    [out     |-> costs(p, x),
     params  |-> [k \in 1..Len(p) |-> p[k] + h[k]],
     heading |-> [k \in 1..Len(p) |->
                     FMul(m, h[k]) - FMul(rate(tt), grad(p, x, k))],
     t       |-> tt + 1]

\* mutant: the evaluation function is compiled with the training updates
f_eval_with_updates(p, h, tt, x) == f_train(p, h, tt, x)

\* mutant: the evaluation function advances the step counter
f_eval_counting(p, h, tt, x) ==
    [out |-> costs(p, x), params |-> p, heading |-> h, t |-> tt + 1]

\* f_eval = theano.function(network.inputs, costs): outputs, no updates
f_eval(p, h, tt, x) ==
    [out |-> costs(p, x), params |-> p, heading |-> h, t |-> tt]

RECURSIVE SumCol(_, _)
SumCol(a, n) == IF n = 0 THEN 0 ELSE SumCol(a, n - 1) + a[n][1]

\* numpy.mean(acc, axis=0): the per-column mean of the rows of acc
mean(a) == IF Len(a) = 0 THEN NaN ELSE << FDivN(SumCol(a, Len(a)), Len(a)) >>

\* mutant: the items are visited last to first
item_reversed(ds, k) == ds[Len(ds) + 1 - k]

\* the k-th item a list comprehension over ds visits
item(ds, k) == ds[k]

\* mutant: the epoch is counted from 1
validates_from_one(uu) == valid_set # None /\ vf > 0 /\ (uu + 1) % vf = 0

\* valid_set is not None and self.vf > 0 and u % self.vf == 0
validates(uu) == valid_set # None /\ vf > 0 /\ uu % vf = 0

\* mutant: the loop runs one epoch more
more_epochs_inclusive(uu) == uu <= epochs

\* for u in xrange(self.epochs): the loop runs its body for uu
more_epochs(uu) == uu < epochs

RECURSIVE evaluate(_, _, _, _, _)
\* Trainer.evaluate: [self.f_eval(*i) for i in test_set], the calls made in
\* order, each on the state the call before it left
evaluate(p, h, tt, ds, n) ==
    IF n = 0 THEN [out |-> << >>, params |-> p, heading |-> h, t |-> tt]
    ELSE LET before == evaluate(p, h, tt, ds, n - 1)
             r == f_eval(before.params, before.heading, before.t, item(ds, n))
         IN  [out |-> Append(before.out, r.out), params |-> r.params,
              heading |-> r.heading, t |-> r.t]

ValidateChoices == 0..2

Decays == { Scale, Scale \div 2 }

Momenta == { 0, Scale \div 2 }

LearningRates == { Scale \div 10 }

InitParams == { << Scale >>, << Scale, 0 >> }

DataSets == SeqsUpTo(Inputs, MaxLen)

TestSets == { << >>, << 0 >>, << 3 * Scale, 0 >> }

ValidSets == { None } \cup { Some(s) : s \in { << >>, << 3 * Scale >>, << 0, 3 * Scale >> } }

\* SGD.__init__, and the datasets the client holds
InitSGD ==
    /\ vf \in ValidateChoices
    /\ epochs \in 0..MaxEpochs
    /\ decay \in Decays
    /\ m \in Momenta
    /\ lr \in LearningRates
    /\ params \in InitParams
    /\ heading = zeros_like(params)
    /\ t = 0
    /\ train_set \in DataSets
    /\ valid_set \in ValidSets
    /\ pc = "idle" /\ u = 0 /\ i = 0 /\ acc = << >> /\ args = << >>
    /\ log = << >>
    /\ ret = NoReturn
    /\ last = "init" /\ hist = << >> /\ ntrains = 0 /\ trace = << >>
    /\ p0 = params /\ t0 = 0 /\ log0 = 0 /\ test_set = << >>

config == << vf, epochs, decay, m, lr, train_set, valid_set, p0, hf >>

\* mutant: train starts from a fresh step counter
TrainResetting ==
    /\ pc = "idle" /\ ntrains < MaxTrains
    /\ ntrains' = ntrains + 1 /\ last' = "train"
    /\ trace' = << >> /\ t0' = 0 /\ log0' = Len(log) /\ t' = 0
    /\ ret' = NoReturn /\ test_set' = << >>
    /\ IF more_epochs(0)
       THEN pc' = "f_train" /\ u' = 0 /\ i' = 1 /\ acc' = << >>
       ELSE pc' = "idle" /\ UNCHANGED << u, i, acc >>
    /\ UNCHANGED << config, params, heading, args, log, hist >>

\* the client calls trainer.train(train_set, valid_set): for u in xrange(epochs)
Train ==
    /\ pc = "idle" /\ ntrains < MaxTrains
    /\ ntrains' = ntrains + 1 /\ last' = "train"
    /\ trace' = << >> /\ t0' = t /\ log0' = Len(log)
    /\ ret' = NoReturn /\ test_set' = << >>
    /\ IF more_epochs(0)
       THEN pc' = "f_train" /\ u' = 0 /\ i' = 1 /\ acc' = << >>
       ELSE pc' = "idle" /\ UNCHANGED << u, i, acc >>
    /\ UNCHANGED << config, params, heading, t, args, log, hist >>

\* one f_train(*i) of acc = [self.f_train(*i) for i in train_set]
FTrainStep ==
    /\ pc = "f_train" /\ i <= Len(train_set)
    /\ LET x == item(train_set, i)
           r == f_train(params, heading, t, x)
       IN  /\ acc' = Append(acc, r.out)
           /\ params' = r.params /\ heading' = r.heading /\ t' = r.t
           /\ trace' = Append(trace, << "f_train", x >>)
           /\ hist' = Append(hist, [p |-> params, h |-> heading, t |-> t, x |-> x,
                                    out |-> r.out, p1 |-> r.params,
                                    h1 |-> r.heading, t1 |-> r.t])
    /\ i' = i + 1 /\ last' = "f_train"
    /\ UNCHANGED << config, pc, u, args, log, ret, ntrains, t0, log0, test_set >>

\* args = (u, self.f_rate()[0], numpy.mean(acc, axis=0)) and the test of the if
EpochArgs ==
    /\ pc = "f_train" /\ i > Len(train_set)
    /\ args' = << u, f_rate(t)[1], mean(acc) >>
    /\ IF validates(u)
       THEN pc' = "f_eval" /\ i' = 1 /\ acc' = << >>
       ELSE pc' = "log" /\ UNCHANGED << i, acc >>
    /\ last' = "args"
    /\ UNCHANGED << config, params, heading, t, u, log, ret, hist, ntrains,
                    trace, t0, log0, test_set >>

\* one f_eval(*i) of acc = [self.f_eval(*i) for i in valid_set]
FEvalStep ==
    /\ pc = "f_eval" /\ i <= Len(valid_set[1])
    /\ LET x == item(valid_set[1], i)
           r == f_eval(params, heading, t, x)
       IN  /\ acc' = Append(acc, r.out)
           /\ params' = r.params /\ heading' = r.heading /\ t' = r.t
           /\ trace' = Append(trace, << "f_eval", x >>)
    /\ i' = i + 1 /\ last' = "f_eval"
    /\ UNCHANGED << config, pc, u, args, log, ret, hist, ntrains, t0, log0,
                    test_set >>

\* fmt += ' valid %s' ; args += (numpy.mean(acc, axis=0), )
ValidDone ==
    /\ pc = "f_eval" /\ i > Len(valid_set[1])
    /\ args' = Append(args, mean(acc))
    /\ pc' = "log" /\ last' = "valid"
    /\ UNCHANGED << config, params, heading, t, u, i, acc, log, ret, hist,
                    ntrains, trace, t0, log0, test_set >>

\* logging.info(fmt, *args), then the next u of the loop or the return
LogInfo ==
    /\ pc = "log"
    /\ log' = Append(log, args)
    /\ trace' = Append(trace, << "log", u >>)
    /\ last' = "log"
    /\ IF more_epochs(u + 1)
       THEN pc' = "f_train" /\ u' = u + 1 /\ i' = 1 /\ acc' = << >>
       ELSE pc' = "idle" /\ UNCHANGED << u, i, acc >>
    /\ UNCHANGED << config, params, heading, t, args, ret, hist, ntrains,
                    t0, log0, test_set >>

\* the client calls trainer.evaluate(ts)
Evaluate(ts) ==
    /\ pc = "idle"
    /\ LET r == evaluate(params, heading, t, ts, Len(ts))
       IN  /\ ret' = [NoReturn EXCEPT !.evaluate = Some(r.out)]
           /\ params' = r.params /\ heading' = r.heading /\ t' = r.t
    /\ test_set' = ts /\ last' = "evaluate"
    /\ UNCHANGED << config, pc, u, i, acc, args, log, hist, ntrains, trace,
                    t0, log0 >>

\* the client calls trainer.f_rate()
Rate ==
    /\ pc = "idle"
    /\ ret' = [NoReturn EXCEPT !.f_rate = Some(f_rate(t))]
    /\ last' = "f_rate"
    /\ UNCHANGED << config, params, heading, t, pc, u, i, acc, args, log,
                    hist, ntrains, trace, t0, log0, test_set >>

\* ---------------------------------------------------------- the HF trainer
\* sys.maxint
maxint == 2147483647

\* dict.pop(k) leaves the dict without k
without(d, k) == [x \in (DOMAIN d) \ { k } |-> d[x]]

\* d.pop(k, dflt) returns
pop_default(d, k, dflt) == IF k \in DOMAIN d THEN d[k] ELSE dflt

\* d[k] = v
with(d, k, v) == [x \in (DOMAIN d) \cup { k } |-> IF x = k THEN v ELSE d[x]]

\* func_code.co_varnames[1:]: Python lists in co_varnames the names of the
\* arguments (the first co_argcount entries) and then those of the local
\* variables; [1:] drops self
co_varnames_tail(code) ==
    { code.co_varnames[j] : j \in 2..Len(code.co_varnames) }

\* the keyword names a call of the function accepts: its arguments after self
accepted(code) == { code.co_varnames[j] : j \in 2..code.co_argcount }

\* HF.__init__ from kwargs.pop('cg_set') on: the dict kept as self.kwargs
hf_kwargs(kw, code) ==
    LET k1 == without(kw, "cg_set")
        k2 == with(without(k1, "epochs"), "num_updates",
                   pop_default(k1, "epochs", maxint))
        k3 == with(without(k2, "validate"), "validation_frequency",
                   pop_default(k2, "validate", maxint))
    IN  [x \in (DOMAIN k3) \cap co_varnames_tail(code) |-> k3[x]]

\* the options a caller may give, each with the value given for it
Given ==
    [cg_set |-> 1, epochs |-> 2, validate |-> 3, num_updates |-> 4,
     learning_rate |-> 5, initial_lambda |-> 6, validation |-> 7, u |-> 8]

\* code objects of the external optimizer's train: one with and one without
\* local variables
Codes ==
    { [co_varnames |-> << "self", "gradient_dataset", "cg_dataset",
                          "initial_lambda", "num_updates", "validation",
                          "validation_frequency", "u", "best" >>,
       co_argcount |-> 7],
      [co_varnames |-> << "self", "gradient_dataset", "cg_dataset",
                          "num_updates", "validation" >>,
       co_argcount |-> 5] }

HFNone ==
    [pc |-> "none", given |-> << >>, code |-> << >>, kwargs |-> << >>,
     cg_set |-> None, call |-> None]

\* the options of HF(network, **kwargs) and the optimizer module found
InitHFInputs ==
    hf \in { [pc |-> "new", given |-> [x \in D |-> Given[x]], code |-> c,
              kwargs |-> << >>, cg_set |-> None, call |-> None] :
             D \in SUBSET (DOMAIN Given), c \in Codes }

\* HF.__init__
HFConstruct ==
    /\ hf.pc = "new"
    /\ IF "cg_set" \in DOMAIN hf.given
       THEN hf' = [hf EXCEPT !.pc = "built",
                             !.cg_set = Some(hf.given["cg_set"]),
                             !.kwargs = hf_kwargs(hf.given, hf.code)]
       ELSE hf' = [hf EXCEPT !.pc = "KeyError"]
    /\ UNCHANGED sgdvars

\* HF.train: self.opt.train(train_set, self.cg_set, validation=valid_set,
\* **self.kwargs), bound as Python binds a call
HFTrain ==
    /\ hf.pc = "built"
    /\ LET names == accepted(hf.code)
           positional == { hf.code.co_varnames[j] : j \in 2..3 }
           keywords == DOMAIN hf.kwargs
       IN  IF /\ hf.code.co_argcount >= 3
              /\ "validation" \notin keywords
              /\ keywords \cup { "validation" } \subseteq names \ positional
           THEN hf' = [hf EXCEPT !.pc = "called",
                                 !.call = Some([cg_dataset |-> hf.cg_set[1],
                                                options |-> hf.kwargs])]
           ELSE hf' = [hf EXCEPT !.pc = "TypeError"]
    /\ UNCHANGED sgdvars

\* --------------------------------------------------------- specifications
TrainBody == FTrainStep \/ EpochArgs \/ FEvalStep \/ ValidDone \/ LogInfo

vars == << sgdvars, hf >>

Init == InitSGD /\ hf = HFNone

Next ==
    \/ Train
    \/ FTrainStep
    \/ EpochArgs
    \/ FEvalStep
    \/ ValidDone
    \/ LogInfo
    \/ \E ts \in TestSets : Evaluate(ts)
    \/ Rate

Spec == Init /\ [][Next]_vars

\* SGD.train runs on the caller's thread: once called, it keeps running
FairSpec == Spec /\ WF_vars(TrainBody)

\* an HF trainer alone, next to an SGD trainer nobody calls
InitHF ==
    /\ InitHFInputs
    /\ vf = 0 /\ epochs = 0 /\ decay = Scale /\ m = 0 /\ lr = Scale \div 10
    /\ params = << Scale >> /\ heading = zeros_like(params) /\ t = 0
    /\ train_set = << >> /\ valid_set = None
    /\ pc = "idle" /\ u = 0 /\ i = 0 /\ acc = << >> /\ args = << >>
    /\ log = << >> /\ ret = NoReturn
    /\ last = "init" /\ hist = << >> /\ ntrains = 0 /\ trace = << >>
    /\ p0 = params /\ t0 = 0 /\ log0 = 0 /\ test_set = << >>

NextHF ==
    \/ HFConstruct
    \/ HFTrain

SpecHF == InitHF /\ [][NextHF]_vars

\* ------------------------------------------------------------- properties
\* what the last completed f_train call (or the construction) left
LastPost ==
    IF Len(hist) = 0
    THEN [p |-> p0, h |-> zeros_like(p0), t |-> 0]
    ELSE [p |-> hist[Len(hist)].p1, h |-> hist[Len(hist)].h1,
          t |-> hist[Len(hist)].t1]

\* the scenario: one parameter w = 1.0, J = (w - 3)^2, learning_rate 0.1,
\* momentum 0, decay 1
Scenario ==
    /\ p0 = << Scale >> /\ lr = Scale \div 10 /\ m = 0 /\ decay = Scale
    /\ \A n \in 1..Len(hist) : hist[n].x = 3 * Scale

\* C1: with momentum = 0 and decay = 1, every f_train call, the first
\* included, changes every parameter p to p - learning_rate * gradient(J, p),
\* the gradient taken at the values held just before that call.
C1_PlainGradientStep ==
    (m = 0 /\ decay = Scale) =>
        \A n \in 1..Len(hist) : \A k \in 1..Len(hist[n].p) :
            hist[n].p1[k] =
                hist[n].p[k] - FMul(lr, grad(hist[n].p, hist[n].x, k))

\* C1, as amended: with momentum = 0 and decay = 1 the first f_train call
\* leaves every parameter unchanged, and every later call changes every
\* parameter p to p - learning_rate * gradient(J, .), the gradient taken at
\* the parameter values and the minibatch of the call before it.
C1_DelayedGradientStep ==
    (m = 0 /\ decay = Scale) =>
        \A n \in 1..Len(hist) : \A k \in 1..Len(hist[n].p) :
            IF n = 1
            THEN hist[n].p1[k] = hist[n].p[k]
            ELSE hist[n].p1[k] =
                     hist[n].p[k]
                     - FMul(lr, grad(hist[n - 1].p, hist[n - 1].x, k))

\* two calls on different minibatches of a network of two parameters, the
\* second moving both parameters
C1_Witness ==
    /\ m = 0 /\ decay = Scale /\ Len(hist) >= 2 /\ Len(p0) = 2
    /\ hist[1].x # hist[2].x
    /\ hist[1].p1 = hist[1].p
    /\ hist[2].p1[1] # hist[2].p[1] /\ hist[2].p1[2] # hist[2].p[2]
    /\ grad(hist[2].p, hist[2].x, 1) # grad(hist[1].p, hist[1].x, 1)

\* C2: the parameter update lags one call: the first f_train call leaves
\* every parameter as constructed, the value after call n+1 is the value
\* after call n plus the heading call n computed, and in the scenario w is
\* 1.0 after one call and 1.4 after two.
C2_LaggedUpdate ==
    /\ \A n \in 1..Len(hist) : \A k \in 1..Len(p0) :
          IF n = 1
          THEN hist[n].p1[k] = p0[k]
          ELSE hist[n].p1[k] = hist[n - 1].p1[k] + hist[n - 1].h1[k]
    /\ Scenario =>
          /\ Len(hist) >= 1 => hist[1].p1 = << Scale >>
          /\ Len(hist) >= 2 => hist[2].p1 = << (14 * Scale) \div 10 >>

C2_Witness ==
    /\ Scenario /\ Len(hist) >= 2
    /\ hist[1].p1[1] = Scale /\ hist[2].p1[1] = (14 * Scale) \div 10

\* C7: one f_train call assigns p' = p + h, h' = momentum * h -
\* learning_rate * decay^t * gradient(J, p) and t' = t + 1, every right-hand
\* side and the returned costs read from the values held before the call.
C7_AtomicUpdate ==
    \A n \in 1..Len(hist) :
        LET c == hist[n]
        IN  /\ \A k \in 1..Len(c.p) :
                  /\ c.p1[k] = c.p[k] + c.h[k]
                  /\ c.h1[k] = FMul(m, c.h[k])
                               - FMul(FMul(lr, FPow(decay, c.t)), grad(c.p, c.x, k))
            /\ c.t1 = c.t + 1
            /\ c.out = << J(c.p, c.x) >>

\* a call with two parameters, momentum, decay, a heading that is not zero
\* and a step counter that is not zero
C7_Witness ==
    \E n \in 1..Len(hist) :
        /\ Len(hist[n].p) = 2 /\ m # 0 /\ decay # Scale /\ hist[n].t >= 1
        /\ hist[n].h[1] # 0 /\ hist[n].h[2] # 0
        /\ hist[n].h1 # hist[n].h /\ hist[n].p1 # hist[n].p

\* C3: f_rate() returns learning_rate * decay^n where n is the number of
\* f_train calls completed since construction; f_rate and f_eval calls do
\* not count; the rate logged at the end of epoch u of a train call started
\* at t = 0 is learning_rate * decay^((u + 1) * |train_set|).
C3_RateFollowsTrainCalls ==
    /\ f_rate(t) = << FMul(lr, FPow(decay, Len(hist))) >>
    /\ last = "f_rate" => ret.f_rate = Some(<< FMul(lr, FPow(decay, Len(hist))) >>)
    /\ t0 = 0 =>
          \A j \in (log0 + 1)..Len(log) :
              log[j][2] = FMul(lr, FPow(decay, (log[j][1] + 1) * Len(train_set)))

\* a rate that has decayed, logged in the second epoch after validation
\* passes, and returned to the client after an evaluate
C3_Witness ==
    /\ decay # Scale /\ t0 = 0 /\ last = "f_rate" /\ test_set # << >>
    /\ Len(log) = 2 /\ Len(log[1]) = 4 /\ Len(valid_set[1]) > 0
    /\ log[2][2] # log[1][2] /\ log[1][2] # lr
    /\ ret.f_rate = Some(<< log[2][2] >>)

\* C4: Trainer.evaluate and every validation pass of SGD.train leave the
\* parameters, the headings and t as the last f_train call (or the
\* construction) left them; evaluate returns one result per item of
\* test_set, in the order of test_set.
C4_EvaluationIsPureRead ==
    /\ last \in { "evaluate", "f_eval", "valid" } =>
          /\ params = LastPost.p
          /\ heading = LastPost.h
          /\ t = LastPost.t
    /\ last = "evaluate" =>
          /\ ret.evaluate # None
          /\ Len(ret.evaluate[1]) = Len(test_set)
          /\ \A k \in 1..Len(test_set) : ret.evaluate[1][k] = << J(params, test_set[k]) >>

\* an evaluate of two items with different costs, on a trained network whose
\* headings are not zero
C4_Witness ==
    /\ last = "evaluate" /\ Len(test_set) = 2 /\ Len(hist) > 0
    /\ heading[1] # 0 /\ params # p0
    /\ ret.evaluate[1][1] # ret.evaluate[1][2]

\* C5: epoch u of SGD.train runs a validation pass if and only if valid_set
\* is not None, validate > 0 and u % validate = 0; with validate = 0 the
\* validation set is never evaluated.
C5_ValidationSchedule ==
    /\ \A j \in 1..Len(log) :
          (Len(log[j]) = 4) <=>
              (valid_set # None /\ vf > 0 /\ log[j][1] % vf = 0)
    /\ pc = "f_eval" => (valid_set # None /\ vf > 0 /\ u % vf = 0)
    /\ vf = 0 => \A e \in 1..Len(trace) : trace[e][1] # "f_eval"

\* validate = 2: epoch 0 logged with a validation mean, epoch 1 without
C5_Witness ==
    /\ vf = 2 /\ valid_set # None /\ Len(log) >= 2
    /\ log[1][1] = 0 /\ Len(log[1]) = 4
    /\ log[2][1] = 1 /\ Len(log[2]) = 3

IsPrefix(a, b) ==
    /\ Len(a) <= Len(b)
    /\ \A k \in 1..Len(a) : a[k] = b[k]

TrainEvents == [k \in 1..Len(train_set) |-> << "f_train", train_set[k] >>]

ValidEvents ==
    IF valid_set = None THEN << >>
    ELSE [k \in 1..Len(valid_set[1]) |-> << "f_eval", valid_set[1][k] >>]

RECURSIVE RunEvents(_, _)
\* the events of epochs 0..n-1, epoch uu validating when v[uu]
RunEvents(v, n) ==
    IF n = 0 THEN << >>
    ELSE RunEvents(v, n - 1) \o TrainEvents
         \o (IF v[n - 1] THEN ValidEvents ELSE << >>)
         \o << << "log", n - 1 >> >>

\* C8: within one SGD.train call the training function is called once per
\* item of train_set, in order, in every epoch; the validation pass of epoch
\* u, when it runs, comes after the training steps of epoch u and before
\* those of epoch u+1; one line is logged per epoch, after that epoch's
\* training steps and validation pass.
C8_EventOrder ==
    \E v \in [0..(epochs - 1) -> BOOLEAN] :
        /\ IsPrefix(trace, RunEvents(v, epochs))
        /\ (pc = "idle" /\ ntrains > 0) => trace = RunEvents(v, epochs)

\* a finished run of two epochs over two different minibatches, the first
\* epoch validated on two items
C8_Witness ==
    /\ pc = "idle" /\ ntrains > 0 /\ epochs = 2
    /\ Len(train_set) = 2 /\ train_set[1] # train_set[2]
    /\ valid_set # None /\ Len(valid_set[1]) = 2 /\ vf = 2
    /\ Len(trace) = 8 /\ trace[3][1] = "f_eval" /\ trace[5][1] = "log"

RECURSIVE Count(_, _, _)
\* the number of events of one kind among the first n of tr
Count(tr, kind, n) ==
    IF n = 0 THEN 0
    ELSE Count(tr, kind, n - 1) + (IF tr[n][1] = kind THEN 1 ELSE 0)

\* C9: SGD.train with finite epochs and datasets returns, after exactly
\* epochs * |train_set| training calls and exactly epochs log lines; with
\* epochs = 0 it returns without training, validating or logging.
C9_TrainTerminates ==
    /\ [](
          (pc = "idle" /\ ntrains > 0) =>
              /\ Count(trace, "f_train", Len(trace)) = epochs * Len(train_set)
              /\ Count(trace, "log", Len(trace)) = epochs
              /\ Len(log) - log0 = epochs
              /\ epochs = 0 => (trace = << >> /\ Len(log) = 0 /\ Len(hist) = 0)
         )
    /\ (pc # "idle") ~> (pc = "idle")

C9_Witness ==
    /\ pc = "idle" /\ ntrains = 2 /\ epochs = 2 /\ Len(train_set) = 2
    /\ Count(trace, "f_train", Len(trace)) = 4 /\ Len(log) = 4

\* C10: train never resets the optimizer state: t is the number of f_train
\* calls since construction, a train call starts from the parameters,
\* headings and t the call before it left, its epoch index restarts at 0,
\* so the logged rate keeps decaying across calls and the first epoch of
\* every call validates.
C10_StatePersistsAcrossTrainCalls ==
    /\ t = Len(hist)
    /\ ntrains > 0 => t0 = (ntrains - 1) * epochs * Len(train_set)
    /\ last = "train" =>
          /\ t = t0 /\ params = LastPost.p /\ heading = LastPost.h
          /\ pc # "idle" => u = 0
    /\ \A j \in 1..Len(log) :
          /\ log[j][1] = (j - 1) % epochs
          /\ log[j][2] = FMul(lr, FPow(decay, j * Len(train_set)))
          /\ ((j - 1) % epochs = 0 /\ valid_set # None /\ vf > 0) =>
                Len(log[j]) = 4

\* a second train call that starts with t > 0 and headings that are not
\* zero, and validates in its epoch 0 at a lower rate than the first call
C10_Witness ==
    /\ ntrains = 2 /\ t0 > 0 /\ decay # Scale /\ epochs = 2 /\ vf = 2
    /\ Len(log) >= 3 /\ log[3][1] = 0 /\ Len(log[3]) = 4
    /\ log[3][2] < log[1][2]
    /\ hist[t0 + 1].h[1] # 0 /\ hist[t0 + 1].t = t0

\* C6: what HF.__init__ keeps to forward holds only keyword names the
\* external train accepts; cg_set is taken out and passed positionally;
\* epochs goes under num_updates and validate under validation_frequency,
\* never under their own names.
C6_OnlyAcceptedOptionsForwarded ==
    hf.pc \in { "built", "called", "TypeError" } =>
        /\ DOMAIN hf.kwargs \subseteq accepted(hf.code)
        /\ "cg_set" \notin DOMAIN hf.kwargs
        /\ hf.cg_set = Some(hf.given["cg_set"])
        /\ "epochs" \notin DOMAIN hf.kwargs
        /\ "validate" \notin DOMAIN hf.kwargs
        /\ ("epochs" \in DOMAIN hf.given /\ "num_updates" \in accepted(hf.code)) =>
              hf.kwargs["num_updates"] = hf.given["epochs"]
        /\ ("validate" \in DOMAIN hf.given
                /\ "validation_frequency" \in accepted(hf.code)) =>
              hf.kwargs["validation_frequency"] = hf.given["validate"]

====
